---- MODULE Spec2Model ----
(***************************************************************************)
(* sf-backtester: the command line entry point (cli.main), the runner      *)
(* pipeline (BacktestRunner.submit), the SBATCH script generator and        *)
(* submitter (slurm.py), and the array tasks the generated script starts   *)
(* (bash prologue + scripts/mvo_worker.py).                                 *)
(***************************************************************************)
EXTENDS Integers, Sequences, FiniteSets, TLC

VARIABLES
    pc,           \* position of the orchestration process (cli.main / runner.submit / submit_job)
    args,         \* the invocation: dry_run, --gamma, --data-path, data passed to submit()
    yaml,         \* the document yaml.safe_load returned, NoDoc before from_yaml
    config,       \* runner.config (BacktestConfig), NoConfig before from_yaml
    dirs,         \* directories created by prepare()
    dataWrites,   \* paths written by data.write_parquet in prepare()
    data,         \* runner._data
    years,        \* result of get_years
    script,       \* result of generate_sbatch_script, NoScript before
    printedScript,\* script text printed by the dry-run branch of submit_job
    log,          \* the other lines printed to stdout, in order
    tmpExists,    \* the NamedTemporaryFile of submit_job exists on disk
    tmpCreated,   \* number of temporary files ever created
    sbatchCalls,  \* number of subprocess.run(["sbatch", ...]) calls
    proc,         \* what the sbatch call produced (returncode, stdout, stderr)
    outcome,      \* how the orchestration ended: return value or raised exception
    tasks,        \* array tasks of the submitted job: tid+1 -> pc of the task
    taskYear,     \* tid+1 -> value the worker received for --year
    writes        \* output artifacts written by workers: [path, tid]

vars == <<pc, args, yaml, config, dirs, dataWrites, data, years, script, printedScript,
          log, tmpExists, tmpCreated, sbatchCalls, proc, outcome, tasks, taskYear, writes>>

(***************************************************************************)
(* Bounds of the model                                                      *)
(***************************************************************************)
MaxRows == 3          \* rows of a dataset
ExtraTaskIds == 1     \* task ids beyond the array range the scheduler may start

(***************************************************************************)
(* Small value domains                                                      *)
(***************************************************************************)
Dates == { <<2019, 1, 1>>, <<2019, 12, 31>>, <<2020, 6, 15>>, <<2021, 3, 1>> }

NoConfig == [none |-> TRUE]
NoDoc == [none |-> TRUE]
NoScript == [none |-> TRUE]
NoPath == <<>>                      \* Python None for a path-valued field
NoData == [kind |-> "none", rows |-> <<>>]
NoProc == [kind |-> "none"]
NoOutcome == [kind |-> "running", exc |-> "", value |-> NoProc]

Frame(rows) == [kind |-> "frame", rows |-> rows]

\* a gamma value: a float (in tenths) or, from YAML only, any string
Float(t) == [kind |-> "float", tenths |-> t, text |-> ""]
Str(s) == [kind |-> "str", tenths |-> 0, text |-> s]

DigitChars == <<"0", "1", "2", "3", "4", "5", "6", "7", "8", "9">>

RECURSIVE IntToStr(_)
\* str(y) for a non-negative int, as a sequence of characters
IntToStr(n) ==
    IF n < 10 THEN <<DigitChars[n + 1]>>
    ELSE Append(IntToStr(n \div 10), DigitChars[(n % 10) + 1])

\* f"{gamma}": repr of a float with one decimal, or the string itself
FormatGamma(g) ==
    IF g.kind = "float"
    THEN IntToStr(g.tenths \div 10) \o <<".">> \o IntToStr(g.tenths % 10)
    ELSE <<g.text>>

(***************************************************************************)
(* config.py                                                                *)
(***************************************************************************)
DefaultNCpus == 8
DefaultMem == "32G"
DefaultTime == "06:00:00"
DefaultMailType == "BEGIN,END,FAIL"
DefaultMaxConcurrentJobs == 31

RequiredKeys == {"signal_name", "data_path", "gamma", "project_root", "byu_email",
                 "constraints", "slurm"}
OptionalKeys == {"output_dir", "logs_dir"}

Get(d, k, default) == IF k \in DOMAIN d THEN d[k] ELSE default

\* SlurmConfig(**d): dataclass defaults for the keys the mapping leaves out
SlurmConfig(d) ==
    [n_cpus |-> Get(d, "n_cpus", DefaultNCpus),
     mem |-> Get(d, "mem", DefaultMem),
     time |-> Get(d, "time", DefaultTime),
     mail_type |-> Get(d, "mail_type", DefaultMailType),
     max_concurrent_jobs |-> Get(d, "max_concurrent_jobs", DefaultMaxConcurrentJobs)]

DerivedOutputDir(project_root, signal_name, gamma) ==
    <<project_root, "/weights/", signal_name, "/">> \o FormatGamma(gamma)

DerivedLogsDir(signal_name, gamma) ==
    <<"logs/", signal_name, "/">> \o FormatGamma(gamma)

\* cls(**data) binds the keywords: a missing required field or an unexpected
\* keyword raises TypeError; the dataclass checks no field's type or value
BindsArguments(doc) ==
    /\ RequiredKeys \subseteq DOMAIN doc
    /\ DOMAIN doc \subseteq (RequiredKeys \cup OptionalKeys)

\* BacktestConfig.__init__ followed by __post_init__
PostInit(doc) ==
    [signal_name |-> doc.signal_name,
     data_path |-> doc.data_path,
     gamma |-> doc.gamma,
     project_root |-> doc.project_root,
     byu_email |-> doc.byu_email,
     constraints |-> doc.constraints,
     slurm |-> SlurmConfig(doc.slurm),
     output_dir |-> IF Get(doc, "output_dir", NoPath) = NoPath
                    THEN DerivedOutputDir(doc.project_root, doc.signal_name, doc.gamma)
                    ELSE doc.output_dir,
     logs_dir |-> IF Get(doc, "logs_dir", NoPath) = NoPath
                  THEN DerivedLogsDir(doc.signal_name, doc.gamma)
                  ELSE doc.logs_dir]

\* The YAML documents the runs are started with
BaseDoc ==
    [signal_name |-> "alpha", data_path |-> "d.parquet", gamma |-> Float(5),
     project_root |-> "/proj", byu_email |-> "u@byu.edu",
     constraints |-> <<"ZeroBeta", "ZeroInvestment">>,
     slurm |-> [n_cpus |-> 4, max_concurrent_jobs |-> 2]]

Without(doc, k) == [x \in (DOMAIN doc) \ {k} |-> doc[x]]

YamlDocs ==
    { BaseDoc,
      [BaseDoc EXCEPT !.slurm = [n_cpus |-> 4]],
      [BaseDoc EXCEPT !.slurm = [n_cpus |-> 4, max_concurrent_jobs |-> 1]],
      [BaseDoc EXCEPT !.slurm = [n_cpus |-> 4, max_concurrent_jobs |-> 0]],
      [BaseDoc EXCEPT !.gamma = Str("abc")],
      [BaseDoc EXCEPT !.constraints = <<"ZeroBeta", "MaxWeight">>],
      [BaseDoc EXCEPT !.constraints = <<>>],
      BaseDoc @@ [output_dir |-> <<"/custom/out">>, logs_dir |-> <<"/custom/logs">>],
      Without(BaseDoc, "gamma"),
      BaseDoc @@ [notes |-> "x"] }

(***************************************************************************)
(* cli.py: the overrides of main                                            *)
(***************************************************************************)
NoGamma == Str("")                  \* --gamma not given
NoDataPath == ""                    \* --data-path not given

OverrideDataPath(cfg, data_path) ==
    IF data_path # NoDataPath THEN [cfg EXCEPT !.data_path = data_path] ELSE cfg

\* output_dir is refreshed, logs_dir is left as it was
OverrideGamma_StaleLogs(cfg, gamma) ==
    IF gamma # NoGamma
    THEN [cfg EXCEPT !.gamma = gamma,
                     !.output_dir = DerivedOutputDir(cfg.project_root, cfg.signal_name, gamma)]
    ELSE cfg

OverrideGamma(cfg, gamma) ==
    IF gamma # NoGamma
    THEN [cfg EXCEPT !.gamma = gamma,
                     !.output_dir = DerivedOutputDir(cfg.project_root, cfg.signal_name, gamma),
                     !.logs_dir = DerivedLogsDir(cfg.signal_name, gamma)]
    ELSE cfg

(***************************************************************************)
(* runner.py: get_years                                                     *)
(***************************************************************************)
\* pl.col("date").dt.year()
YearOf(date) == date[1]

Min(S) == CHOOSE m \in S : \A x \in S : m <= x

RECURSIVE SortAsc(_)
\* .sort("year").to_series().to_list() of a set of distinct values
SortAsc(S) == IF S = {} THEN <<>> ELSE <<Min(S)>> \o SortAsc(S \ {Min(S)})

\* the year column in row order, neither deduplicated nor sorted
GetYears_RowOrder(rows) == [i \in 1..Len(rows) |-> YearOf(rows[i])]

\* select(year).unique().sort("year").to_series().to_list()
GetYears(rows) == SortAsc({YearOf(rows[i]) : i \in 1..Len(rows)})

Frames == UNION { [1..n -> Dates] : n \in 0..MaxRows }

(***************************************************************************)
(* slurm.py: generate_sbatch_script                                         *)
(***************************************************************************)
RECURSIVE JoinSpace(_)
\* " ".join(words), words being sequences of characters
JoinSpace(words) ==
    IF words = <<>> THEN <<>>
    ELSE IF Len(words) = 1 THEN words[1]
    ELSE words[1] \o <<" ">> \o JoinSpace(Tail(words))

\* #SBATCH --array=0-{num_years - 1}%{max_concurrent_jobs}
ArrayDirective(num_years, max_concurrent_jobs) ==
    [first |-> 0, last |-> num_years - 1, throttle |-> max_concurrent_jobs]

generate_sbatch_script(cfg, ys) ==
    [job_name |-> <<cfg.signal_name, "_backtest">>,
     output |-> cfg.logs_dir \o <<"/backtest_%A_%a.out">>,
     error |-> cfg.logs_dir \o <<"/backtest_%A_%a.err">>,
     array |-> ArrayDirective(Len(ys), cfg.slurm.max_concurrent_jobs),
     cpus_per_task |-> cfg.slurm.n_cpus,
     mem |-> cfg.slurm.mem,
     time |-> cfg.slurm.time,
     mail_user |-> cfg.byu_email,
     mail_type |-> cfg.slurm.mail_type,
     DATA_PATH |-> cfg.data_path,
     OUTPUT_DIR |-> cfg.output_dir,
     GAMMA |-> FormatGamma(cfg.gamma),
     N_CPUS |-> cfg.slurm.n_cpus,
     CONSTRAINTS |-> JoinSpace([i \in 1..Len(cfg.constraints) |-> <<cfg.constraints[i]>>]),
     years |-> JoinSpace([i \in 1..Len(ys) |-> IntToStr(ys[i])]),
     venv |-> <<cfg.project_root, "/.venv/bin/activate">>]

(***************************************************************************)
(* The generated script, as bash runs it for one array task                 *)
(***************************************************************************)
RECURSIVE SplitFrom(_, _, _)
SplitFrom(chars, i, word) ==
    IF i > Len(chars)
    THEN IF word = <<>> THEN <<>> ELSE <<word>>
    ELSE IF chars[i] = " "
         THEN (IF word = <<>> THEN <<>> ELSE <<word>>) \o SplitFrom(chars, i + 1, <<>>)
         ELSE SplitFrom(chars, i + 1, Append(word, chars[i]))

\* bash word splitting of an unquoted expansion or an array literal
SplitWords(chars) == SplitFrom(chars, 1, <<>>)

\* the guard compares with -gt: the index equal to num_years passes
OutOfRange_OffByOne(task_id, num_years) == task_id > num_years

\* [ $SLURM_ARRAY_TASK_ID -ge $num_years ]
OutOfRange(task_id, num_years) == task_id >= num_years

\* ${years[$SLURM_ARRAY_TASK_ID]}: bash arrays are indexed from 0, and an
\* unset element expands to the empty word
BashElement(arr, task_id) ==
    IF task_id + 1 \in 1..Len(arr) THEN arr[task_id + 1] ELSE <<>>

DigitValue(c) == CHOOSE d \in 0..9 : DigitChars[d + 1] = c

RECURSIVE ParseInt(_)
\* argparse type=int on a word of decimal digits
ParseInt(word) ==
    IF Len(word) = 1 THEN DigitValue(word[1])
    ELSE 10 * ParseInt(SubSeq(word, 1, Len(word) - 1)) + DigitValue(word[Len(word)])

(***************************************************************************)
(* scripts/mvo_worker.py                                                    *)
(***************************************************************************)
CONSTRAINT_REGISTRY == {"ZeroBeta", "ZeroInvestment"}

\* get_constraints raises KeyError on the first name missing from the registry
GetConstraintsRaises(names) == \E i \in 1..Len(names) : names[i] \notin CONSTRAINT_REGISTRY

\* every task writes the same file name
OutputPath_NoYear(output_dir, year) == output_dir \o <<"/">> \o <<"weights">> \o <<".parquet">>

\* f"{output_dir}/{year}.parquet"
OutputPath(output_dir, year) == output_dir \o <<"/">> \o IntToStr(year) \o <<".parquet">>

(***************************************************************************)
(* Inputs of a run                                                          *)
(***************************************************************************)
NoDateFrame == [kind |-> "nodate", rows |-> <<>>]      \* a frame without a date column
Unreadable == [kind |-> "unreadable", rows |-> <<>>]   \* read_parquet raises

FileContents == {Frame(f) : f \in Frames} \cup {NoDateFrame, Unreadable}
GivenData == {Frame(f) : f \in Frames} \cup {NoDateFrame}

\* cli.main passes no data; BacktestRunner.submit(data=df) is the library entry
ArgSets ==
    [api : {FALSE}, dry_run : BOOLEAN, gamma : {NoGamma, Float(20)},
     data_path : {NoDataPath, "d2.parquet"}]
    \cup [api : {TRUE}, dry_run : BOOLEAN, gamma : {NoGamma}, data_path : {NoDataPath}]

\* what running ["sbatch", script_path] can produce
SbatchResults ==
    { [kind |-> "exited", returncode |-> 0, stdout |-> "Submitted batch job 1", stderr |-> ""],
      [kind |-> "exited", returncode |-> 0, stdout |-> "Submitted batch job 1",
       stderr |-> "sbatch: warning: x"],
      [kind |-> "exited", returncode |-> 1, stdout |-> "",
       stderr |-> "sbatch: error: invalid partition"],
      [kind |-> "exited", returncode |-> 1, stdout |-> "",
       stderr |-> "sbatch: error: Batch job submission failed"],
      [kind |-> "notfound", returncode |-> 0, stdout |-> "", stderr |-> ""] }

Returned(value) == [kind |-> "returned", exc |-> "", value |-> value]
Raised(exc, p) == [kind |-> "raised", exc |-> exc, value |-> p]

\* check=False: a non-zero exit status is returned like a success
CheckedRun_NoCheck(p) ==
    IF p.kind = "notfound" THEN Raised("FileNotFoundError", NoProc)
    ELSE Returned(p)

\* subprocess.run(..., capture_output=True, text=True, check=True)
CheckedRun(p) ==
    IF p.kind = "notfound" THEN Raised("FileNotFoundError", NoProc)
    ELSE IF p.returncode # 0 THEN Raised("CalledProcessError", p)
    ELSE Returned(p)

(***************************************************************************)
(* The state after the process starts                                       *)
(***************************************************************************)
Init ==
    /\ pc = "start"
    /\ args \in ArgSets
    /\ yaml = NoDoc
    /\ config = NoConfig
    /\ dirs = {}
    /\ dataWrites = {}
    /\ data = NoData
    /\ years = <<>>
    /\ script = NoScript
    /\ printedScript = NoScript
    /\ log = <<>>
    /\ tmpExists = FALSE
    /\ tmpCreated = 0
    /\ sbatchCalls = 0
    /\ proc = NoProc
    /\ outcome = NoOutcome
    /\ tasks = <<>>
    /\ taskYear = <<>>
    /\ writes = {}

(***************************************************************************)
(* cli.main and BacktestRunner.submit                                       *)
(***************************************************************************)
\* BacktestRunner.from_yaml -> BacktestConfig.from_yaml
FromYaml ==
    /\ pc = "start"
    /\ \E doc \in YamlDocs :
         /\ yaml' = doc
         /\ IF BindsArguments(doc)
            THEN /\ config' = PostInit(doc)
                 /\ pc' = "overrides"
                 /\ UNCHANGED outcome
            ELSE /\ outcome' = Raised("TypeError", NoProc)
                 /\ pc' = "exit"
                 /\ UNCHANGED config
    /\ UNCHANGED <<args, dirs, dataWrites, data, years, script, printedScript, log,
                   tmpExists, tmpCreated, sbatchCalls, proc, tasks, taskYear, writes>>

\* cli.main: "Apply overrides"
ApplyOverrides ==
    /\ pc = "overrides"
    /\ config' = OverrideGamma(OverrideDataPath(config, args.data_path), args.gamma)
    /\ pc' = "prepare"
    /\ UNCHANGED <<args, yaml, dirs, dataWrites, data, years, script, printedScript, log,
                   tmpExists, tmpCreated, sbatchCalls, proc, outcome, tasks, taskYear, writes>>

\* BacktestRunner.prepare
Prepare ==
    /\ pc = "prepare"
    /\ dirs' = dirs \cup {config.output_dir, config.logs_dir, <<config.project_root, "/temp">>}
    /\ IF args.api
       THEN \E d \in GivenData :
              /\ dataWrites' = dataWrites \cup {config.data_path}
              /\ data' = d
       ELSE UNCHANGED <<dataWrites, data>>
    /\ pc' = "load_data"
    /\ UNCHANGED <<args, yaml, config, years, script, printedScript, log,
                   tmpExists, tmpCreated, sbatchCalls, proc, outcome, tasks, taskYear, writes>>

\* BacktestRunner.load_data
LoadData ==
    /\ pc = "load_data"
    /\ IF data # NoData
       THEN /\ pc' = "get_years"
            /\ UNCHANGED <<data, outcome>>
       ELSE \E content \in FileContents :
              IF content = Unreadable
              THEN /\ outcome' = Raised("ReadError", NoProc)
                   /\ pc' = "exit"
                   /\ UNCHANGED data
              ELSE /\ data' = content
                   /\ pc' = "get_years"
                   /\ UNCHANGED outcome
    /\ UNCHANGED <<args, yaml, config, dirs, dataWrites, years, script, printedScript, log,
                   tmpExists, tmpCreated, sbatchCalls, proc, tasks, taskYear, writes>>

\* BacktestRunner.get_years, called from submit
GetYearsStep ==
    /\ pc = "get_years"
    /\ IF data.kind = "nodate"
       THEN /\ outcome' = Raised("ColumnNotFoundError", NoProc)
            /\ pc' = "exit"
            /\ UNCHANGED years
       ELSE /\ years' = GetYears(data.rows)
            /\ pc' = "announce"
            /\ UNCHANGED outcome
    /\ UNCHANGED <<args, yaml, config, dirs, dataWrites, data, script, printedScript, log,
                   tmpExists, tmpCreated, sbatchCalls, proc, tasks, taskYear, writes>>

\* the prints of submit: years[0] and years[-1] raise IndexError on an empty list
Announce ==
    /\ pc = "announce"
    /\ IF years = <<>>
       THEN /\ outcome' = Raised("IndexError", NoProc)
            /\ pc' = "exit"
            /\ UNCHANGED log
       ELSE /\ log' = Append(log, "Preparing backtest")
            /\ pc' = "generate"
            /\ UNCHANGED outcome
    /\ UNCHANGED <<args, yaml, config, dirs, dataWrites, data, years, script, printedScript,
                   tmpExists, tmpCreated, sbatchCalls, proc, tasks, taskYear, writes>>

\* script = generate_sbatch_script(self.config, years)
Generate ==
    /\ pc = "generate"
    /\ script' = generate_sbatch_script(config, years)
    /\ pc' = "submit_job"
    /\ UNCHANGED <<args, yaml, config, dirs, dataWrites, data, years, printedScript, log,
                   tmpExists, tmpCreated, sbatchCalls, proc, outcome, tasks, taskYear, writes>>

(***************************************************************************)
(* slurm.py: submit_job                                                     *)
(***************************************************************************)
\* the dry-run branch is never taken
TakesDryRunBranch_Never(dry_run) == FALSE

\* if dry_run:
TakesDryRunBranch(dry_run) == dry_run

\* the dry-run branch: print the script, return None (submit then prints nothing)
SubmitJobDryRun ==
    /\ pc = "submit_job"
    /\ TakesDryRunBranch(args.dry_run)
    /\ log' = Append(log, "DRY RUN - Would submit the following script:")
    /\ printedScript' = script
    /\ outcome' = Returned(NoProc)
    /\ pc' = "exit"
    /\ UNCHANGED <<args, yaml, config, dirs, dataWrites, data, years, script,
                   tmpExists, tmpCreated, sbatchCalls, proc, tasks, taskYear, writes>>

\* tempfile.NamedTemporaryFile(mode="w", suffix=".sh", delete=False)
CreateTemp ==
    /\ pc = "submit_job"
    /\ ~TakesDryRunBranch(args.dry_run)
    /\ tmpExists' = TRUE
    /\ tmpCreated' = tmpCreated + 1
    /\ pc' = "write_tmp"
    /\ UNCHANGED <<args, yaml, config, dirs, dataWrites, data, years, script, printedScript,
                   log, sbatchCalls, proc, outcome, tasks, taskYear, writes>>

\* f.write(script_content) and the close at the end of the with block; an
\* OSError leaves the with block before the try/finally is entered, and
\* delete=False keeps the file
WriteTemp ==
    /\ pc = "write_tmp"
    /\ \/ /\ pc' = "sbatch"
          /\ UNCHANGED outcome
       \/ /\ outcome' = Raised("OSError", NoProc)
          /\ pc' = "exit"
    /\ UNCHANGED <<args, yaml, config, dirs, dataWrites, data, years, script, printedScript,
                   log, tmpExists, tmpCreated, sbatchCalls, proc, tasks, taskYear, writes>>

\* the call is repeated once when it fails
RunSbatch_RetryOnFailure ==
    /\ pc = "sbatch"
    /\ sbatchCalls < 2
    /\ sbatchCalls' = sbatchCalls + 1
    /\ \E p \in SbatchResults :
         /\ proc' = p
         /\ pc' = IF CheckedRun(p).kind = "raised" /\ sbatchCalls = 0
                  THEN "sbatch" ELSE "finally"
    /\ UNCHANGED <<args, yaml, config, dirs, dataWrites, data, years, script, printedScript,
                   log, tmpExists, tmpCreated, outcome, tasks, taskYear, writes>>

\* subprocess.run(["sbatch", script_path], ...)
RunSbatch ==
    /\ pc = "sbatch"
    /\ sbatchCalls' = sbatchCalls + 1
    /\ \E p \in SbatchResults : proc' = p
    /\ pc' = "finally"
    /\ UNCHANGED <<args, yaml, config, dirs, dataWrites, data, years, script, printedScript,
                   log, tmpExists, tmpCreated, outcome, tasks, taskYear, writes>>

\* finally: unlink the script if it exists; then return the result or let
\* the exception of subprocess.run propagate
Finally ==
    /\ pc = "finally"
    /\ tmpExists' = FALSE
    /\ outcome' = CheckedRun(proc)
    /\ pc' = IF CheckedRun(proc).kind = "returned" THEN "report" ELSE "exit"
    /\ UNCHANGED <<args, yaml, config, dirs, dataWrites, data, years, script, printedScript,
                   log, tmpCreated, sbatchCalls, proc, tasks, taskYear, writes>>

\* submit: "if result is not None", after which main returns and the process
\* ends, the frame it held in memory with it. The scheduler now owns the array
\* job, whose task ids are those of the array directive (and, when the
\* scheduler is misconfigured, up to ExtraTaskIds more)
Report ==
    /\ pc = "report"
    /\ log' = log \o <<"Job submitted successfully!", outcome.value.stdout>>
                  \o (IF outcome.value.stderr # "" THEN <<outcome.value.stderr>> ELSE <<>>)
    /\ tasks' = [i \in 1..(script.array.last + 1 + ExtraTaskIds) |-> "pending"]
    /\ taskYear' = [i \in 1..(script.array.last + 1 + ExtraTaskIds) |-> 0]
    /\ data' = NoData
    /\ pc' = "exit"
    /\ UNCHANGED <<args, yaml, config, dirs, dataWrites, years, script, printedScript,
                   tmpExists, tmpCreated, sbatchCalls, proc, outcome, writes>>

(***************************************************************************)
(* The array tasks: the generated script, then mvo_worker.py                *)
(***************************************************************************)
Running == {i \in DOMAIN tasks : tasks[i] \in {"worker", "optimizing"}}

WorkerInvoked == {"usage_error", "worker", "key_error", "optimizing", "crashed", "done"}

\* the bash prologue of the script up to the srun line, and argparse
TaskStart(i) ==
    /\ tasks[i] = "pending"
    /\ Cardinality(Running) < script.array.throttle
    /\ LET task_id == i - 1
           arr == SplitWords(script.years)
           word == BashElement(arr, task_id)
           names == SplitWords(script.CONSTRAINTS)
       IN IF OutOfRange(task_id, Len(arr))
          THEN /\ tasks' = [tasks EXCEPT ![i] = "exit1"]
               /\ UNCHANGED taskYear
          ELSE IF word = <<>> \/ names = <<>>
               THEN /\ tasks' = [tasks EXCEPT ![i] = "usage_error"]
                    /\ UNCHANGED taskYear
               ELSE /\ tasks' = [tasks EXCEPT ![i] = "worker"]
                    /\ taskYear' = [taskYear EXCEPT ![i] = ParseInt(word)]
    /\ UNCHANGED <<pc, args, yaml, config, dirs, dataWrites, data, years, script,
                   printedScript, log, tmpExists, tmpCreated, sbatchCalls, proc, outcome,
                   writes>>

\* run_backtest_by_year up to get_constraints
WorkerResolve(i) ==
    /\ tasks[i] = "worker"
    /\ LET words == SplitWords(script.CONSTRAINTS)
           names == [j \in 1..Len(words) |-> words[j][1]]
       IN tasks' = [tasks EXCEPT ![i] = IF GetConstraintsRaises(names)
                                        THEN "key_error" ELSE "optimizing"]
    /\ UNCHANGED <<pc, args, yaml, config, dirs, dataWrites, data, years, script,
                   printedScript, log, tmpExists, tmpCreated, sbatchCalls, proc, outcome,
                   taskYear, writes>>

\* backtest_parallel returns and weights.write_parquet(output_path)
WorkerWrite(i) ==
    /\ tasks[i] = "optimizing"
    /\ writes' = writes \cup {[path |-> OutputPath(script.OUTPUT_DIR, taskYear[i]),
                               tid |-> i - 1]}
    /\ tasks' = [tasks EXCEPT ![i] = "done"]
    /\ UNCHANGED <<pc, args, yaml, config, dirs, dataWrites, data, years, script,
                   printedScript, log, tmpExists, tmpCreated, sbatchCalls, proc, outcome,
                   taskYear>>

\* backtest_parallel raises
WorkerCrash(i) ==
    /\ tasks[i] = "optimizing"
    /\ tasks' = [tasks EXCEPT ![i] = "crashed"]
    /\ UNCHANGED <<pc, args, yaml, config, dirs, dataWrites, data, years, script,
                   printedScript, log, tmpExists, tmpCreated, sbatchCalls, proc, outcome,
                   taskYear, writes>>

Next ==
    \/ FromYaml
    \/ ApplyOverrides
    \/ Prepare
    \/ LoadData
    \/ GetYearsStep
    \/ Announce
    \/ Generate
    \/ SubmitJobDryRun
    \/ CreateTemp
    \/ WriteTemp
    \/ RunSbatch
    \/ Finally
    \/ Report
    \/ \E i \in DOMAIN tasks : TaskStart(i)
    \/ \E i \in DOMAIN tasks : WorkerResolve(i)
    \/ \E i \in DOMAIN tasks : WorkerWrite(i)
    \/ \E i \in DOMAIN tasks : WorkerCrash(i)

Spec == Init /\ [][Next]_vars

(***************************************************************************)
(* Properties                                                               *)
(***************************************************************************)
PastGetYears == {"announce", "generate", "submit_job", "write_tmp", "sbatch", "finally",
                 "report", "exit"}

SchedulerFailed == proc # NoProc /\ (proc.kind = "notfound" \/ proc.returncode # 0)

\* C1: when a non-dry-run submit_job has returned or raised, on any exit path
\* (success, non-zero exit status, sbatch not found, failed write), the
\* temporary script file it created no longer exists.
C1_TempRemovedOnEveryExit ==
    (pc = "exit" /\ tmpCreated > 0) => ~tmpExists

C3_GammaOverrideRefreshesPaths ==
    (args.gamma # NoGamma /\ config # NoConfig /\ pc # "overrides") =>
        /\ config.gamma = args.gamma
        /\ config.output_dir
             = <<config.project_root, "/weights/", config.signal_name, "/">>
               \o FormatGamma(args.gamma)
        /\ config.logs_dir = <<"logs/", config.signal_name, "/">> \o FormatGamma(args.gamma)
        /\ (pc # "prepare" =>
              /\ {config.output_dir, config.logs_dir} \subseteq dirs
              /\ \A d \in dirs : d \in {config.output_dir, config.logs_dir,
                                         <<config.project_root, "/temp">>})
        /\ (script # NoScript =>
              /\ script.OUTPUT_DIR = config.output_dir
              /\ script.output = config.logs_dir \o <<"/backtest_%A_%a.out">>
              /\ script.error = config.logs_dir \o <<"/backtest_%A_%a.err">>
              /\ script.GAMMA = FormatGamma(args.gamma))

C3_Witness ==
    /\ args.gamma # NoGamma
    /\ script # NoScript
    /\ yaml.gamma # args.gamma
    /\ "output_dir" \in DOMAIN yaml
    /\ config.output_dir \in dirs
    /\ config.output_dir # yaml.output_dir

\* C4: when sbatch exits non-zero or cannot be found, submit ends by raising
\* (no result is returned, "Job submitted successfully!" is never printed, no
\* array job exists), and the exception carries the captured stderr unchanged.
C4_SchedulerFailureSurfaces ==
    (SchedulerFailed /\ pc # "finally") =>
        /\ pc = "exit"
        /\ outcome.kind = "raised"
        /\ outcome.exc = (IF proc.kind = "notfound"
                          THEN "FileNotFoundError" ELSE "CalledProcessError")
        /\ (proc.kind = "exited" =>
              /\ outcome.value.stderr = proc.stderr
              /\ outcome.value.returncode = proc.returncode)
        /\ \A i \in 1..Len(log) : log[i] # "Job submitted successfully!"
        /\ tasks = <<>>

C4_Witness ==
    /\ pc = "exit"
    /\ proc.kind = "exited"
    /\ proc.returncode = 1
    /\ outcome.exc = "CalledProcessError"
    /\ outcome.value.stderr = "sbatch: error: invalid partition"

\* C5: the array directive of every generated script spans 0..N-1 for the N
\* embedded years and is throttled to max_concurrent_jobs, an integer >= 1.
C5_ArrayDirective ==
    script # NoScript =>
        /\ script.array.first = 0
        /\ script.array.last = Len(years) - 1
        /\ Len(SplitWords(script.years)) = Len(years)
        /\ script.array.throttle = config.slurm.max_concurrent_jobs
        /\ script.array.throttle >= 1

\* C6: get_years yields the distinct years of the date column in strictly
\* ascending order; the script embeds them in that order; every task index i
\* in 0..N-1 passes the guard and its worker receives year = years[i].
C6_TaskIndexMapsToPartition ==
    /\ (data.kind = "frame" /\ pc \in PastGetYears) =>
          /\ \A i \in 1..Len(years) : \A j \in 1..Len(years) : i < j => years[i] < years[j]
          /\ {years[i] : i \in 1..Len(years)}
               = {data.rows[i][1] : i \in 1..Len(data.rows)}
    /\ script # NoScript =>
          LET words == SplitWords(script.years)
          IN /\ Len(words) = Len(years)
             /\ \A i \in 1..Len(words) : ParseInt(words[i]) = years[i]
    /\ \A i \in DOMAIN tasks :
          i <= Len(years) =>
             /\ tasks[i] # "exit1"
             /\ (tasks[i] \in {"worker", "key_error", "optimizing", "crashed", "done"}
                   => taskYear[i] = years[i])

C6_Witness ==
    /\ Len(years) = 3
    /\ Len(tasks) >= 3
    /\ \A i \in 1..3 : tasks[i] = "done"
    /\ taskYear[1] = 2019 /\ taskYear[2] = 2020 /\ taskYear[3] = 2021

\* C7: a task whose index is >= N exits with status 1 at the guard; the
\* worker is invoked only for indices in 0..N-1.
C7_OutOfRangeGuard ==
    \A i \in DOMAIN tasks :
        /\ (i - 1 >= Len(years) => tasks[i] \in {"pending", "exit1"})
        /\ (tasks[i] \in WorkerInvoked => i - 1 \in 0..(Len(years) - 1))

C7_Witness ==
    \E i \in DOMAIN tasks :
        /\ i - 1 >= Len(years)
        /\ tasks[i] = "exit1"
        /\ \E j \in DOMAIN tasks : tasks[j] = "done"

\* C8 as stated: every non-dry-run submission that has ended made exactly one
\* scheduler call.
C8_ExactlyOneCall ==
    (~args.dry_run /\ script # NoScript /\ pc = "exit") => sbatchCalls = 1

\* C8 amended: a run makes at most one scheduler call and never repeats it;
\* it makes exactly one whenever the temporary script was written, and none
\* when writing it failed.
C8_AtMostOneCallNoRetry ==
    /\ sbatchCalls <= 1
    /\ pc \in {"finally", "report"} => sbatchCalls = 1
    /\ (~args.dry_run /\ script # NoScript /\ pc = "exit") =>
          sbatchCalls = (IF outcome.exc = "OSError" THEN 0 ELSE 1)

C8_Witness ==
    /\ pc = "exit"
    /\ outcome.exc = "CalledProcessError"
    /\ sbatchCalls = 1

\* the configuration of the run is missing a required field, has an unknown
\* one, or its gamma is still not a number once the overrides are applied
InvalidConfig ==
    /\ yaml # NoDoc
    /\ \/ ~BindsArguments(yaml)
       \/ /\ pc # "overrides"
          /\ config.gamma.kind # "float"

\* C9: a run whose configuration is invalid has no I/O side effect (no
\* directory, no dataset write, no temporary script, no scheduler call) and no
\* script; a run whose data is unreadable or lacks the date column has no
\* script and no submission.
C9_InvalidRunHasNoEffects ==
    /\ InvalidConfig =>
          /\ dirs = {}
          /\ dataWrites = {}
          /\ tmpCreated = 0
          /\ sbatchCalls = 0
          /\ script = NoScript
    /\ outcome.exc \in {"ReadError", "ColumnNotFoundError", "IndexError"} =>
          /\ script = NoScript
          /\ tmpCreated = 0
          /\ sbatchCalls = 0

\* C10: under every interleaving of the array tasks, a task that completes has
\* written exactly one artifact, at output_dir/<its year>.parquet; no two task
\* indices write the same path; a task that has not completed has written
\* nothing, and with an unrecognized constraint name no task gets past
\* get_constraints.
C10_OneOutputPerPartition ==
    /\ \A w1 \in writes : \A w2 \in writes : w1.path = w2.path => w1.tid = w2.tid
    /\ \A i \in DOMAIN tasks :
          LET mine == {w \in writes : w.tid = i - 1}
          IN IF tasks[i] = "done"
             THEN /\ Cardinality(mine) = 1
                  /\ \A w \in mine :
                       w.path = config.output_dir \o <<"/">> \o IntToStr(years[i])
                                \o <<".parquet">>
             ELSE mine = {}
    /\ (/\ config # NoConfig
        /\ \E k \in 1..Len(config.constraints) :
              config.constraints[k] \notin CONSTRAINT_REGISTRY)
          => /\ writes = {}
             /\ \A i \in DOMAIN tasks : tasks[i] \notin {"optimizing", "crashed", "done"}

C10_Witness ==
    /\ Cardinality(writes) = 3
    /\ \A i \in 1..3 : tasks[i] = "done"
    /\ script.array.throttle >= 2

====
